---- MODULE Spec2Model ----
(***************************************************************************)
(* Model of backend/services/code_executor.py: the toolchain registry      *)
(* (EXECUTION_CONFIG, LANGUAGE_INSTALL_MESSAGES), the binary lookup        *)
(* helpers and execute_code, the one operation of the execution engine.    *)
(*                                                                         *)
(* Text is modelled at the granularity the code inspects it:               *)
(*   - a requested language is a sequence of one-character strings, so     *)
(*     that str.lower() is computed character by character;                *)
(*   - a source text is a sequence of lines, a line a sequence of symbols; *)
(*     the symbol "public class" is the keyword the Java scan looks for,   *)
(*     " " is whitespace and "/" the path separator;                       *)
(*   - a captured stderr is the list of its lines (what split('\n')        *)
(*     yields), a line being a sequence of tokens.                         *)
(* Times are integers: the timeout in seconds, a measured duration in      *)
(* microseconds (the elapsed field of an outcome), execution_time in       *)
(* milliseconds.                                                           *)
(***************************************************************************)
EXTENDS Integers, Sequences, FiniteSets, TLC

\* ------------------------------------------------------------------ bounds

\* Number of execute_code calls that exist in the model.
NumCalls == 2

\* Case variants of a language name: the first k characters upper-cased,
\* for k = 0 .. MaxUpper.
MaxUpper == 1

\* Processes a compile or run subprocess may itself spawn.
MaxDescendants == 1

\* Names tempfile may pick for a staging directory.
NumTempNames == 2

Calls == 1 .. NumCalls

\* ------------------------------------------------------------------ text

RECURSIVE Str(_)
\* The string made of the characters (or tokens) of s, in order.
Str(s) == IF s = <<>> THEN "" ELSE Head(s) \o Str(Tail(s))

UpperToLower ==
  ("A" :> "a") @@ ("B" :> "b") @@ ("C" :> "c") @@ ("G" :> "g") @@ ("H" :> "h")
  @@ ("J" :> "j") @@ ("O" :> "o") @@ ("P" :> "p") @@ ("R" :> "r") @@ ("S" :> "s")
  @@ ("U" :> "u") @@ ("V" :> "v") @@ ("Y" :> "y") @@ ("T" :> "t") @@ ("N" :> "n")
  @@ ("L" :> "l")

LowerChar(ch) == IF ch \in DOMAIN UpperToLower THEN UpperToLower[ch] ELSE ch

UpperChar(ch) ==
  IF \E u \in DOMAIN UpperToLower : UpperToLower[u] = ch
  THEN CHOOSE u \in DOMAIN UpperToLower : UpperToLower[u] = ch
  ELSE ch

\* str.lower(), character by character.
Lower(s) == [i \in 1 .. Len(s) |-> LowerChar(s[i])]

\* str.upper(), character by character.
Upper(s) == [i \in 1 .. Len(s) |-> UpperChar(s[i])]

\* ------------------------------------------------------------------ registry

PROJECT_TEMPLATE == "<Project Sdk=\"Microsoft.NET.Sdk\">...</Project>"

EXECUTION_CONFIG ==
  [ python |-> [command |-> <<"python3", "{file}">>, extension |-> ".py", timeout |-> 10],
    java   |-> [command |-> <<"java", "{class_name}">>, extension |-> ".java", timeout |-> 10,
                compile_command |-> <<"javac", "{file}">>],
    ruby   |-> [command |-> <<"ruby", "{file}">>, extension |-> ".rb", timeout |-> 10],
    php    |-> [command |-> <<"php", "{file}">>, extension |-> ".php", timeout |-> 10],
    cpp    |-> [command |-> <<"./{executable}">>, extension |-> ".cpp", timeout |-> 10,
                compile_command |-> <<"g++", "{file}", "-o", "{executable}">>],
    c      |-> [command |-> <<"./{executable}">>, extension |-> ".c", timeout |-> 10,
                compile_command |-> <<"gcc", "{file}", "-o", "{executable}">>],
    csharp |-> [command |-> <<"dotnet", "run", "--project", "{project_dir}">>,
                extension |-> ".cs", timeout |-> 10, requires_project |-> TRUE,
                project_template |-> PROJECT_TEMPLATE],
    go     |-> [command |-> <<"go", "run", "{file}">>, extension |-> ".go", timeout |-> 10],
    rust   |-> [command |-> <<"rustc", "{file}", "-o", "{executable}", "&&", "./{executable}">>,
                extension |-> ".rs", timeout |-> 15] ]

LANGUAGE_INSTALL_MESSAGES ==
  [ php    |-> "PHP is not installed. Install it with: brew install php (macOS) or apt-get install php (Linux)",
    ruby   |-> "Ruby is not installed. Install it with: brew install ruby (macOS) or apt-get install ruby (Linux)",
    java   |-> "Java is not installed. Install it with: brew install openjdk (macOS) or apt-get install default-jdk (Linux)",
    go     |-> "Go is not installed. Install it from https://go.dev/dl/",
    rust   |-> "Rust is not installed. Install it from https://rustup.rs/",
    cpp    |-> "C++ compiler (g++) is not installed. Install it with: brew install gcc (macOS) or apt-get install build-essential (Linux)",
    c      |-> "C compiler (gcc) is not installed. Install it with: brew install gcc (macOS) or apt-get install build-essential (Linux)",
    csharp |-> "Dotnet is not installed. Install it from https://dotnet.microsoft.com/download",
    python |-> "Python 3 is not installed. Install it from https://www.python.org/downloads/" ]

\* ------------------------------------------------------------------ binary lookup

\* Where an executable file may live: on the standard search path (what
\* shutil.which consults) or in one of the alternate install locations.
SEARCH_PATH == "/usr/bin"

homebrew_paths == <<"/opt/homebrew/bin", "/usr/local/bin", "~/.cargo/bin">>

Locations == {SEARCH_PATH} \cup {homebrew_paths[i] : i \in DOMAIN homebrew_paths}

Binaries == {"python3", "java", "javac", "ruby", "php", "g++", "gcc", "dotnet", "go", "rustc"}

\* shutil.which(command) on the set b of installed <<location, name>> pairs.
which(b, command) == <<SEARCH_PATH, command>> \in b

\* FirstHomebrew, were the alternate locations searched last to first.
FirstHomebrew_last(b, command) ==
  IF \E i \in DOMAIN homebrew_paths : <<homebrew_paths[i], command>> \in b
  THEN CHOOSE i \in DOMAIN homebrew_paths :
         /\ <<homebrew_paths[i], command>> \in b
         /\ \A j \in DOMAIN homebrew_paths : <<homebrew_paths[j], command>> \in b => j <= i
  ELSE 0

\* Index of the first alternate location holding an executable `command`, 0 if none.
FirstHomebrew(b, command) ==
  IF \E i \in DOMAIN homebrew_paths : <<homebrew_paths[i], command>> \in b
  THEN CHOOSE i \in DOMAIN homebrew_paths :
         /\ <<homebrew_paths[i], command>> \in b
         /\ \A j \in DOMAIN homebrew_paths : <<homebrew_paths[j], command>> \in b => i <= j
  ELSE 0

check_command_exists(b, command) ==
  IF which(b, command) THEN TRUE ELSE FirstHomebrew(b, command) # 0

\* The resolved command: the directory it was found in and its name; the
\* bare name (dir = "") when it was found nowhere.
get_command_path(b, command) ==
  IF which(b, command) THEN [dir |-> SEARCH_PATH, name |-> command]
  ELSE IF FirstHomebrew(b, command) # 0
       THEN [dir |-> homebrew_paths[FirstHomebrew(b, command)], name |-> command]
       ELSE [dir |-> "", name |-> command]

\* RequiredCommands, were the Java check to forget the compiler.
RequiredCommands_nojavac(lang) ==
  CASE lang = "php"    -> <<"php">>
    [] lang = "ruby"   -> <<"ruby">>
    [] lang = "java"   -> <<"java">>
    [] lang = "go"     -> <<"go">>
    [] lang = "rust"   -> <<"rustc">>
    [] lang = "cpp"    -> <<"g++">>
    [] lang = "c"      -> <<"gcc">>
    [] lang = "csharp" -> <<"dotnet">>
    [] lang = "python" -> <<"python3">>
    [] OTHER           -> <<>>

\* The binaries whose presence execute_code checks for a language, in the
\* order of the checks.
RequiredCommands(lang) ==
  CASE lang = "php"    -> <<"php">>
    [] lang = "ruby"   -> <<"ruby">>
    [] lang = "java"   -> <<"java", "javac">>
    [] lang = "go"     -> <<"go">>
    [] lang = "rust"   -> <<"rustc">>
    [] lang = "cpp"    -> <<"g++">>
    [] lang = "c"      -> <<"gcc">>
    [] lang = "csharp" -> <<"dotnet">>
    [] lang = "python" -> <<"python3">>
    [] OTHER           -> <<>>

CompilerChars(lang) == IF lang = "cpp" THEN <<"g", "+", "+">> ELSE <<"g", "c", "c">>

MissingPrefix(lang) ==
  CASE lang = "php"    -> "PHP runtime not found. "
    [] lang = "ruby"   -> "Ruby runtime not found. "
    [] lang = "java"   -> "Java runtime not found. "
    [] lang = "go"     -> "Go runtime not found. "
    [] lang = "rust"   -> "Rust compiler not found. "
    [] lang \in {"cpp", "c"} -> Str(Upper(CompilerChars(lang))) \o " compiler not found. "
    [] lang = "csharp" -> "Dotnet runtime not found. "
    [] lang = "python" -> "Python 3 not found. "

\* ------------------------------------------------------------------ paths

\* A path is the sequence of its components from the root.
RECURSIVE Comp(_, _, _)
Comp(syms, cur, acc) ==
  IF syms = <<>> THEN (IF cur = "" THEN acc ELSE Append(acc, cur))
  ELSE IF Head(syms) = "/"
       THEN Comp(Tail(syms), "", IF cur = "" THEN acc ELSE Append(acc, cur))
       ELSE Comp(Tail(syms), cur \o Head(syms), acc)

\* The components of a path written as a sequence of symbols.
Components(syms) == Comp(syms, "", <<>>)

IsAbsolute(syms) == syms # <<>> /\ Head(syms) = "/"

\* pathlib: Path(dir) / name; an absolute name replaces dir.
PathJoin(dir, syms) == IF IsAbsolute(syms) THEN Components(syms) ELSE dir \o Components(syms)

RECURSIVE Res(_, _)
Res(path, acc) ==
  IF path = <<>> THEN acc
  ELSE IF Head(path) = ".."
       THEN Res(Tail(path), IF acc = <<>> THEN acc ELSE SubSeq(acc, 1, Len(acc) - 1))
       ELSE Res(Tail(path), Append(acc, Head(path)))

\* The file the operating system reaches through `path` (".." resolved).
Resolve(path) == Res(path, <<>>)

Parent(path) == SubSeq(path, 1, Len(path) - 1)

IsPrefix(d, p) == Len(d) <= Len(p) /\ SubSeq(p, 1, Len(d)) = d

\* p is d or lies below it.
Inside(p, d) == IsPrefix(d, Resolve(p))

TMP == <<"tmp">>

TempNames == {<<"tmp", "tmpdir" \o ToString(i)>> : i \in 1 .. NumTempNames}

\* ------------------------------------------------------------------ java class name

KEYWORD == "public class"

RECURSIVE IndexOf(_, _, _)
\* Least index >= i at which symbol x occurs in s, 0 if none.
IndexOf(s, x, i) ==
  IF i > Len(s) THEN 0 ELSE IF s[i] = x THEN i ELSE IndexOf(s, x, i + 1)

\* line.split('public class')[1]: what follows the first keyword, up to the next.
AfterKeyword(line) ==
  LET k == IndexOf(line, KEYWORD, 1)
      n == IndexOf(line, KEYWORD, k + 1)
  IN  SubSeq(line, k + 1, IF n = 0 THEN Len(line) ELSE n - 1)

RECURSIVE SkipSpace(_)
SkipSpace(s) == IF s # <<>> /\ Head(s) = " " THEN SkipSpace(Tail(s)) ELSE s

RECURSIVE TakeWord(_)
TakeWord(s) == IF s = <<>> \/ Head(s) = " " THEN <<>> ELSE <<Head(s)>> \o TakeWord(Tail(s))

\* str.split(): the whitespace-separated words; only the first is used.
FirstWord(s) == TakeWord(SkipSpace(s))

RECURSIVE FirstKeywordLine(_, _)
\* Index of the first line of the source holding the keyword, 0 if none.
FirstKeywordLine(src, i) ==
  IF i > Len(src) THEN 0
  ELSE IF IndexOf(src[i], KEYWORD, 1) # 0 THEN i ELSE FirstKeywordLine(src, i + 1)

\* The class name the Java branch derives: ok = FALSE stands for the
\* IndexError of parts[1].split()[0] on a keyword followed by nothing.
class_name(src) ==
  LET i == FirstKeywordLine(src, 1) IN
  IF i = 0 THEN [ok |-> TRUE, name |-> <<"Main">>]
  ELSE LET w == FirstWord(AfterKeyword(src[i])) IN
       IF w = <<>> THEN [ok |-> FALSE, name |-> <<>>]
       ELSE [ok |-> TRUE, name |-> w]

\* The path of the staged source file.
file_path(lang, src, dir) ==
  IF lang = "java"
  THEN PathJoin(dir, class_name(src).name \o <<EXECUTION_CONFIG[lang].extension>>)
  ELSE PathJoin(dir, <<"main", EXECUTION_CONFIG[lang].extension>>)

\* ------------------------------------------------------------------ inputs

RequestNames ==
  { <<"p", "y", "t", "h", "o", "n">>, <<"j", "a", "v", "a">>, <<"r", "u", "b", "y">>,
    <<"p", "h", "p">>, <<"c", "p", "p">>, <<"c">>, <<"c", "s", "h", "a", "r", "p">>,
    <<"g", "o">>, <<"r", "u", "s", "t">>,
    <<"c", "o", "b", "o", "l">>, <<"c", "+", "+">>, <<>> }

\* s with its first k characters upper-cased.
Variant(s, k) == [i \in 1 .. Len(s) |-> IF i <= k THEN UpperChar(s[i]) ELSE s[i]]

LanguageInputs ==
  {Variant(s, k) : s \in RequestNames, k \in 0 .. MaxUpper} \cup {Upper(s) : s \in RequestNames}

PlainCode == << <<"print('hi')">> >>

JavaCodes ==
  { << <<"public class", " ", "Greeter", " ", "{", "}">> >>,
    << <<"public class", " ", "Greeter", "{", "}">> >>,
    << <<"import">>, <<"public class", " ", "Bar", " ", "{">>, <<"public class", " ", "Baz">> >>,
    << <<"public class">> >>,
    << <<"public class", " ", "/", "tmp", "/", "Evil", " ", "{">> >>,
    << <<"public class", " ", "..", "/", "Evil", " ", "{">> >>,
    << <<"public class", " ", "sub", "/", "Evil", " ", "{">> >> }

\* The source texts tried for a request: the Java scan reads the text, the
\* other languages stage it unread.
CodeInputs(req) ==
  IF Str(Lower(req)) = "java" THEN {PlainCode} \cup JavaCodes
  ELSE {PlainCode, << <<"public class", " ", "Greeter", " ", "{", "}">> >>}

\* Where the binaries of one toolchain may be installed.
LocationSetups ==
  { {}, {SEARCH_PATH}, {SEARCH_PATH, homebrew_paths[1]}, {homebrew_paths[2], homebrew_paths[3]} }

\* The installations tried for a request: every binary the language's
\* commands name is placed by one of the location setups.
\* The binaries a language's compile and run commands name (lines 246-254,
\* 275-276, 311-316, 326-327, 361-371).
Invokes(lang) ==
  IF lang \notin DOMAIN EXECUTION_CONFIG THEN {}
  ELSE CASE lang = "java" -> {"javac", "java"}
         [] lang = "rust" -> {"rustc"}
         [] lang \in {"c", "cpp"} -> {EXECUTION_CONFIG[lang].compile_command[1]}
         [] OTHER -> {EXECUTION_CONFIG[lang].command[1]}

BinSetupsFrom(req, setups) ==
  LET names == Invokes(Str(Lower(req)))
  IN  { UNION {{<<l, n>> : l \in f[n]} : n \in names} : f \in [names -> setups] }

BinSetups(req) == BinSetupsFrom(req, LocationSetups)

\* The installations tried when a request is followed by another: a binary
\* is absent, on the search path, or in alternate locations only.
SeqSetups(req) ==
  BinSetupsFrom(req, { {}, {SEARCH_PATH}, {homebrew_paths[2], homebrew_paths[3]} })

\* A captured stderr: its lines, each a sequence of tokens.
NoStderr == << <<>> >>

ErrorLine == << <<"error: ", "boom">>, <<>> >>

WarningOnly == << <<"warning:", " unused variable">>, <<>> >>

StderrSamples ==
  { NoStderr,
    ErrorLine,
    << <<"info:", " syncing channel">>, <<"error: ", "boom">>, <<" ">>, <<>> >>,
    WarningOnly,
    << <<" ", "info:", " kept">> >> }

RECURSIVE JoinLines(_)
\* '\n'.join(lines)
JoinLines(lines) ==
  IF lines = <<>> THEN ""
  ELSE IF Len(lines) = 1 THEN Str(lines[1])
       ELSE Str(Head(lines)) \o "\n" \o JoinLines(Tail(lines))

\* The text of a captured stream given as its lines.
Text(lines) == JoinLines(lines)

\* How the environment may answer a step. A subprocess exits by itself
\* (kind "exit": its exit code, what it wrote, how long it ran), outlives
\* the timeout (kind "timeout": what it had written by then), or
\* subprocess.run raises another exception (kind "error"). A filesystem
\* operation succeeds (kind "ok") or raises OSError (kind "error").
Outcome(kind, rc, stdout, stderr, elapsed) ==
  [kind |-> kind, rc |-> rc, stdout |-> stdout, stderr |-> stderr, elapsed |-> elapsed]

CompileOutcomes ==
  {Outcome("exit", 1, "", e, 0) : e \in StderrSamples}
  \cup {Outcome("exit", 0, "", e, 0) : e \in {NoStderr, WarningOnly}}
  \cup {Outcome("exit", 2, "", ErrorLine, 0)}
  \cup {Outcome("timeout", 0, "", NoStderr, 0), Outcome("error", 0, "", NoStderr, 0)}

RunOutcomes ==
  { Outcome("exit", 0, "hi\n", NoStderr, 1234567),
    Outcome("exit", 0, "hi\n", ErrorLine, 0),
    Outcome("exit", 0, "", NoStderr, 0),
    Outcome("exit", 1, "", ErrorLine, 1234567),
    Outcome("exit", 1, "hi\n", NoStderr, 0),
    Outcome("exit", 124, "", NoStderr, 1234567),
    Outcome("exit", 124, "hi\n", ErrorLine, 0),
    Outcome("timeout", 0, "", NoStderr, 0),
    Outcome("timeout", 0, "hi\n", NoStderr, 0),
    Outcome("error", 0, "", NoStderr, 0) }

FsOutcomes == {Outcome("ok", 0, "", NoStderr, 0), Outcome("error", 0, "", NoStderr, 0)}

\* str(e) of the exceptions the model raises besides TimeoutExpired and
\* FileNotFoundError.
INDEX_ERROR == "list index out of range"
OS_ERROR == "[Errno 13] Permission denied"

\* ------------------------------------------------------------------ state

VARIABLES
  pc,          \* per call: where execute_code stands
  reqLanguage, \* per call: the language argument, as passed
  code,        \* per call: the code argument
  language,    \* per call: the local `language` after line 133
  result,      \* per call: <<>> or <<r>>, the dictionary being returned
  tempDir,     \* per call: temp_dir, <<>> before it is created
  filePath,    \* per call: file_path
  written,     \* per call: the files and directories the call wrote
  log,         \* per call: what the call did, in order
  fs,          \* the paths that exist
  bins,        \* the executables that exist, as <<location, name>>
  procs,       \* the live processes started by calls
  world,       \* how the environment answered: <<<<step, language, code>>, outcome>>
  raced,       \* whether an executable vanished since the start
  environ,     \* os.environ of the server process
  env          \* per call: the local `env`, <<>> before line 234

vars == <<pc, reqLanguage, code, language, result, tempDir, filePath, written, log,
          fs, bins, procs, world, raced, environ, env>>

Null == <<>>

Some(s) == <<s>>

Result(output, error, exit_code, execution_time) ==
  [output |-> output, error |-> error, exit_code |-> exit_code,
   execution_time |-> execution_time]

config(c) == EXECUTION_CONFIG[language[c]]

timeout(c) == config(c).timeout

\* A process environment: PATH as its entries in order, each the symbols of
\* its text (set = FALSE when the variable is not defined); the other
\* variables as their value, "" when not defined.
Environ(set, entries) ==
  [PATH |-> [set |-> set, entries |-> entries],
   PYTHONUNBUFFERED |-> "", RUSTUP_TOOLCHAIN |-> "", RUSTUP_LOG |-> ""]

\* Line 238: current_path = env.get('PATH', '')
current_path(e) == IF e.PATH.set THEN e.PATH.entries ELSE <<>>

\* Line 240: path in current_path, a test on the text of PATH.
Contains(entries, path) ==
  \E i \in DOMAIN entries : \E k \in DOMAIN entries[i] : entries[i][k] = path

RECURSIVE ExtendedPath(_, _)
\* Lines 239-241: each location not found in the text is put in front of it.
ExtendedPath(cur, i) ==
  IF i > Len(homebrew_paths) THEN cur
  ELSE ExtendedPath(IF Contains(cur, homebrew_paths[i]) THEN cur
                    ELSE << <<homebrew_paths[i]>> >> \o cur, i + 1)

\* prepare_env, were env the process environment itself and not a copy.
prepare_env_inplace(e) ==
  LET made == [e EXCEPT !.PYTHONUNBUFFERED = "1",
                        !.PATH = [set |-> TRUE, entries |-> ExtendedPath(current_path(e), 1)]]
  IN  [environ |-> made, env |-> made]

\* Lines 234-242: env is a copy of os.environ with PYTHONUNBUFFERED set and
\* PATH extended; os.environ stays as it is.
prepare_env(e) ==
  [environ |-> e,
   env |-> [e EXCEPT !.PYTHONUNBUFFERED = "1",
                     !.PATH = [set |-> TRUE, entries |-> ExtendedPath(current_path(e), 1)]]]

\* Lines 329-331: rust_env, a copy of env with the rustup variables set.
rust_env(e) == [e EXCEPT !.RUSTUP_TOOLCHAIN = "stable", !.RUSTUP_LOG = "error"]

\* The environment a compile subprocess is given (lines 262, 283, 338).
compile_env(lang, e) == IF lang = "rust" THEN rust_env(e) ELSE e

\* The state in which the calls of `active` are being made and those of
\* `later` will be, with requests req and source texts src, on the
\* installation b, in a server process with environment e.
InitIn(active, later, req, src, b, e) ==
  /\ environ = e
  /\ env = [c \in Calls |-> <<>>]
  /\ reqLanguage = [c \in Calls |-> IF c \in active \cup later THEN req[c] ELSE <<>>]
  /\ code = [c \in Calls |-> IF c \in active \cup later THEN src[c] ELSE PlainCode]
  /\ pc = [c \in Calls |-> IF c \in active THEN "start"
                           ELSE IF c \in later THEN "waiting" ELSE "unused"]
  /\ language = [c \in Calls |-> ""]
  /\ result = [c \in Calls |-> <<>>]
  /\ tempDir = [c \in Calls |-> <<>>]
  /\ filePath = [c \in Calls |-> <<>>]
  /\ written = [c \in Calls |-> {}]
  /\ log = [c \in Calls |-> <<>>]
  /\ fs = {<<>>, TMP}
  /\ bins = b
  /\ procs = {}
  /\ world = {}
  /\ raced = FALSE

\* The same, the server having inherited a usual PATH.
InitWith(active, later, req, src, b) ==
  InitIn(active, later, req, src, b, Environ(TRUE, << <<"/usr/local/bin">>, <<"/usr/bin">> >>))

\* One call, any request, any installation of its toolchain.
Init ==
  \E r \in LanguageInputs : \E s \in CodeInputs(r) : \E b \in BinSetups(r) :
    InitWith({1}, {}, <<r>>, <<s>>, b)

\* Two calls made one after the other by the same caller, with the same
\* source text and languages that differ only in letter case.
InitSeq ==
  \E r1 \in RequestNames : \E r2 \in LanguageInputs \ {r1} :
    /\ r1 = Lower(r2)
    /\ \E s \in CodeInputs(r1) : \E b \in SeqSetups(r1) :
         InitWith({1}, {2}, <<r1, r2>>, <<s, s>>, b)

\* ------------------------------------------------------------------ results

\* str.capitalize() on a sequence of symbols: the first character
\* upper-cased, every other one lower-cased.
CapSym(x) ==
  CASE x = "python3" -> "Python3" [] x = "java" -> "Java" [] x = "javac" -> "Javac"
    [] x = "ruby" -> "Ruby" [] x = "php" -> "Php" [] x = "g++" -> "G++"
    [] x = "gcc" -> "Gcc" [] x = "dotnet" -> "Dotnet" [] x = "go" -> "Go"
    [] x = "rustc" -> "Rustc" [] OTHER -> x

LowSym(x) ==
  CASE x = "Evil" -> "evil" [] x = "Greeter" -> "greeter" [] x = "Greeter{" -> "greeter{"
    [] x = "Bar" -> "bar" [] x = "Main" -> "main" [] x = "Evil.java" -> "evil.java"
    [] OTHER -> x

Capitalize(syms) == [i \in 1 .. Len(syms) |-> IF i = 1 THEN CapSym(syms[1]) ELSE LowSym(syms[i])]

RECURSIVE PathSyms(_)
\* An absolute path as the symbols of its text.
PathSyms(path) == IF path = <<>> THEN <<>> ELSE <<"/", Head(path)>> \o PathSyms(Tail(path))

\* UnsupportedResult, were the unsupported language reported as a success.
UnsupportedResult_exit0(lang) ==
  Result("", Some("Language " \o lang \o " is not supported for execution."), 0, 0)

\* Lines 136-141.
UnsupportedResult(lang) ==
  Result("", Some("Language " \o lang \o " is not supported for execution."), 1, 0)

\* Lines 147-211: the result of a failed presence check.
MissingResult(lang) ==
  Result("", Some(MissingPrefix(lang) \o LANGUAGE_INSTALL_MESSAGES[lang]), 1, 0)

Blank(line) == \A i \in DOMAIN line : line[i] = " "

StartsWith(line, tok) == line # <<>> /\ line[1] = tok

\* NotNoise, were the warning lines kept.
NotNoise_warnings(line) == ~(StartsWith(line, "info:") \/ Blank(line))

NotNoise(line) ==
  ~(StartsWith(line, "info:") \/ StartsWith(line, "warning:") \/ Blank(line))

\* Lines 341-351: the compiler's stderr after the rustup filter.
filtered_stderr(lines) ==
  IF Text(lines) = "" THEN ""
  ELSE Text(SelectSeq(lines, NotNoise))

\* compile_stderr, were the rustup filter left out.
compile_stderr_raw(lang, lines) == Text(lines)

\* The stderr text a compile step hands to the failure check.
compile_stderr(lang, lines) ==
  IF lang = "rust" THEN filtered_stderr(lines) ELSE Text(lines)

\* Lines 265-271, 286-292, 352-358.
CompileFailure(lang, o) ==
  LET err == compile_stderr(lang, o.stderr) IN
  Result("", Some(IF err = "" THEN "Compilation failed" ELSE err), o.rc, 0)

\* TimeoutResult, were the ceiling written into it as the common 10 seconds.
TimeoutResult_ten(t) ==
  Result("", Some("Execution timed out after 10 seconds."), 124, 10 * 1000)

\* Lines 395-401.
TimeoutResult(t) ==
  Result("", Some("Execution timed out after " \o ToString(t) \o " seconds."), 124, t * 1000)

\* round(execution_time, 3): microseconds to the nearest millisecond.
Round3(us) == (us + 500) \div 1000

\* RunResult, were stderr reported whatever the exit code.
RunResult_stderr(o) == Result(o.stdout, Some(Text(o.stderr)), o.rc, Round3(o.elapsed))

\* Lines 383-393.
RunResult(o) ==
  Result(o.stdout, IF o.rc # 0 THEN Some(Text(o.stderr)) ELSE Null, o.rc, Round3(o.elapsed))

\* FileNotFoundResult, were the missing file reported as any other exception.
FileNotFoundResult_generic(lang, cmd_name) ==
  Result("", Some("Execution error: [Errno 2] No such file or directory"), 1, 0)

\* Lines 402-413: FileNotFoundError naming cmd_name (a sequence of symbols).
FileNotFoundResult(lang, cmd_name) ==
  Result("", Some(Str(Capitalize(cmd_name)) \o " not found. " \o LANGUAGE_INSTALL_MESSAGES[lang]),
         1, 0)

\* Lines 432-437: any other exception, whose text msg names no missing file.
ExceptionResult(lang, msg) == Result("", Some("Execution error: " \o msg), 1, 0)

\* ------------------------------------------------------------------ execute_code

\* The environment answers step `step` of call c with outcome o: the same
\* request gets the same answer every time it reaches the step.
Decide(c, step, o) ==
  LET k == <<step, language[c], code[c]>> IN
  /\ \A e \in world : e[1] = k => e[2] = o
  /\ world' = world \cup {<<k, o>>}

Logged(c, events) == log' = [log EXCEPT ![c] = @ \o events]

\* The call leaves the try block with result r: what remains is the exit of
\* the `with` block.
Leave(c, r) ==
  /\ result' = [result EXCEPT ![c] = <<r>>]
  /\ pc' = [pc EXCEPT ![c] = "cleanup"]

\* The call returns r without having entered the `with` block.
Return(c, r) ==
  /\ result' = [result EXCEPT ![c] = <<r>>]
  /\ pc' = [pc EXCEPT ![c] = "done"]

\* normalized, were the language looked up as passed.
normalized_asis(req) == Str(req)

\* Line 133: language = language.lower()
normalized(req) == Str(Lower(req))

\* Lines 133-143: normalise the language and look it up.
Normalize(c) ==
  /\ pc[c] = "start"
  /\ LET lang == normalized(reqLanguage[c]) IN
     /\ language' = [language EXCEPT ![c] = lang]
     /\ IF lang \notin DOMAIN EXECUTION_CONFIG
        THEN Return(c, UnsupportedResult(lang))
        ELSE /\ pc' = [pc EXCEPT ![c] = "check"]
             /\ UNCHANGED result
  /\ UNCHANGED <<environ, env, reqLanguage, code, tempDir, filePath, written, log, fs, bins, procs,
                 world, raced>>

\* Number of check_command_exists calls the presence check makes: it stops
\* at the first missing binary.
NumLookups(b, cmds) ==
  IF \E i \in DOMAIN cmds : ~check_command_exists(b, cmds[i])
  THEN CHOOSE i \in DOMAIN cmds :
         /\ ~check_command_exists(b, cmds[i])
         /\ \A j \in 1 .. i - 1 : check_command_exists(b, cmds[j])
  ELSE Len(cmds)

\* Whether the presence check of lines 147-211 finds the toolchain of lang.
ToolchainPresent(b, lang) ==
  \A i \in DOMAIN RequiredCommands(lang) : check_command_exists(b, RequiredCommands(lang)[i])

\* Lines 146-211: the presence check.
CheckToolchain(c) ==
  /\ pc[c] = "check"
  /\ LET cmds == RequiredCommands(language[c]) IN
     /\ Logged(c, [i \in 1 .. NumLookups(bins, cmds) |-> <<"lookup", cmds[i]>>])
     /\ IF ToolchainPresent(bins, language[c])
        THEN /\ pc' = [pc EXCEPT ![c] = "mkdtemp"]
             /\ UNCHANGED result
        ELSE Return(c, MissingResult(language[c]))
  /\ UNCHANGED <<environ, env, reqLanguage, code, language, tempDir, filePath, written, fs, bins,
                 procs, world, raced>>

\* Line 214, entry: tempfile.TemporaryDirectory() creates a directory under a
\* name not in use, or raises; the exception is raised outside the try block.
EnterTempDir(c) ==
  /\ pc[c] = "mkdtemp"
  /\ \E o \in FsOutcomes :
       /\ Decide(c, "mkdtemp", o)
       /\ \/ /\ o.kind = "ok"
             /\ \E d \in TempNames \ fs :
                  /\ tempDir' = [tempDir EXCEPT ![c] = d]
                  /\ fs' = fs \cup {d}
             /\ pc' = [pc EXCEPT ![c] = "stage"]
             /\ Logged(c, << <<"mkdtemp">> >>)
          \/ /\ o.kind = "error"
             /\ pc' = [pc EXCEPT ![c] = "raised"]
             /\ UNCHANGED <<tempDir, fs, log>>
  /\ UNCHANGED <<environ, env, reqLanguage, code, language, result, filePath, written, bins, procs, raced>>

\* AfterStage, were no language compiled before it is run.
AfterStage_run(lang) == IF lang = "csharp" THEN "project" ELSE "run"

\* Where the call goes once the source is staged.
AfterStage(lang) ==
  IF lang \in {"c", "cpp", "java", "rust"} THEN "compile"
  ELSE IF lang = "csharp" THEN "project" ELSE "run"

\* Lines 216-242: derive the file name and write the source.
Stage(c) ==
  /\ pc[c] = "stage"
  /\ \/ /\ language[c] = "java"
        /\ ~class_name(code[c]).ok
        /\ Leave(c, ExceptionResult(language[c], INDEX_ERROR))
        /\ UNCHANGED <<filePath, written, fs, world, log, environ, env>>
     \/ /\ language[c] = "java" => class_name(code[c]).ok
        /\ LET path == file_path(language[c], code[c], tempDir[c]) IN
           /\ filePath' = [filePath EXCEPT ![c] = path]
           /\ \/ /\ Parent(Resolve(path)) \notin fs
                 /\ Leave(c, FileNotFoundResult(language[c], PathSyms(path)))
                 /\ UNCHANGED <<written, fs, world, log, environ, env>>
              \/ /\ Parent(Resolve(path)) \in fs
                 /\ \E o \in FsOutcomes :
                      /\ Decide(c, "write", o)
                      /\ \/ /\ o.kind = "ok"
                            /\ fs' = fs \cup {Resolve(path)}
                            /\ written' = [written EXCEPT ![c] = @ \cup {Resolve(path)}]
                            /\ Logged(c, << <<"write", "source">> >>)
                            /\ environ' = prepare_env(environ).environ
                            /\ env' = [env EXCEPT ![c] = prepare_env(environ).env]
                            /\ pc' = [pc EXCEPT ![c] = AfterStage(language[c])]
                            /\ UNCHANGED result
                         \/ /\ o.kind = "error"
                            /\ Leave(c, ExceptionResult(language[c], OS_ERROR))
                            /\ UNCHANGED <<written, fs, log, environ, env>>
  /\ UNCHANGED <<reqLanguage, code, language, tempDir, bins, procs, raced>>

\* The compiler a language with a compile step invokes (lines 246-254,
\* 275-276, 326-327).
compiler(lang) ==
  CASE lang \in {"c", "cpp"} -> EXECUTION_CONFIG[lang].compile_command[1]
    [] lang = "java" -> "javac"
    [] lang = "rust" -> "rustc"

\* executable = file_path.with_suffix(''), for the languages staged as main.<ext>.
executable(dir) == dir \o <<"main">>

\* What a successful compile leaves behind.
artifact(lang, src, dir) ==
  IF lang = "java" THEN Resolve(PathJoin(dir, class_name(src).name \o <<".class">>))
  ELSE executable(dir)

Child(c, step, cwd) == [owner |-> c, step |-> step, role |-> "child", n |-> 0, cwd |-> cwd]

Descendants(c, step) == {p \in procs : p.owner = c /\ p.step = step /\ p.role = "descendant"}

\* subprocess.run leaving on an exception: it kills the process it started
\* and waits for it; the processes that one started are not signalled.
KillChild(c, step) == procs' = {p \in procs : ~(p.owner = c /\ p.step = step /\ p.role = "child")}

\* subprocess.run returning: the process it started has exited and the
\* pipes are at end of file, so no process holding them is left.
ReapChild(c, step) ==
  /\ Descendants(c, step) = {}
  /\ procs' = {p \in procs : ~(p.owner = c /\ p.step = step)}

\* Lines 246-263, 275-284, 326-339: resolve the compiler and start it.
SpawnCompile(c) ==
  /\ pc[c] = "compile"
  /\ LET cmd == get_command_path(bins, compiler(language[c])) IN
     \/ /\ cmd.dir = ""
        /\ Leave(c, FileNotFoundResult(language[c], <<cmd.name>>))
        /\ UNCHANGED <<procs, log>>
     \/ /\ cmd.dir # ""
        /\ procs' = procs \cup {Child(c, "compile", tempDir[c])}
        /\ pc' = [pc EXCEPT ![c] = "compiling"]
        /\ Logged(c, << <<"spawn", "compile", cmd.name, filePath[c], tempDir[c],
                           compile_env(language[c], env[c])>> >>)
        /\ UNCHANGED result
  /\ UNCHANGED <<environ, env, reqLanguage, code, language, tempDir, filePath, written, fs, bins,
                 world, raced>>

\* compile_failed, were a compiler that wrote to stderr taken to have failed.
compile_failed_stderr(o) == o.rc # 0 \/ Text(o.stderr) # ""

\* Lines 265, 286, 352: if compile_result.returncode != 0
compile_failed(o) == o.rc # 0

\* Lines 256-271, 277-292, 332-358: the compile subprocess.run returns or raises.
CompileEnd(c) ==
  /\ pc[c] = "compiling"
  /\ \E o \in CompileOutcomes :
       /\ Decide(c, "compile", o)
       /\ \/ /\ o.kind = "exit"
             /\ ReapChild(c, "compile")
             /\ Logged(c, << <<"exit", "compile">> >>)
             /\ IF compile_failed(o)
                THEN /\ Leave(c, CompileFailure(language[c], o))
                     /\ UNCHANGED fs
                ELSE /\ pc' = [pc EXCEPT ![c] = "run"]
                     /\ fs' = fs \cup {artifact(language[c], code[c], tempDir[c])}
                     /\ UNCHANGED result
          \/ /\ o.kind = "timeout"
             /\ KillChild(c, "compile")
             /\ Logged(c, << <<"kill", "compile">> >>)
             /\ Leave(c, TimeoutResult(timeout(c)))
             /\ UNCHANGED fs
          \/ /\ o.kind = "error"
             /\ KillChild(c, "compile")
             /\ Logged(c, << <<"kill", "compile">> >>)
             /\ Leave(c, ExceptionResult(language[c], OS_ERROR))
             /\ UNCHANGED fs
  /\ UNCHANGED <<environ, env, reqLanguage, code, language, tempDir, filePath, written, bins, raced>>

\* project_dir, were the project files put in the staging directory itself.
project_dir_flat(dir) == dir

\* Line 296: project_dir = Path(temp_dir) / 'Project'
project_dir(dir) == dir \o <<"Project">>

\* Lines 295-312: the C# project directory, its manifest and Program.cs.
ProjectSetup(c) ==
  /\ pc[c] = "project"
  /\ \E o \in FsOutcomes :
       /\ Decide(c, "project", o)
       /\ \/ /\ o.kind = "ok"
             /\ LET made == { project_dir(tempDir[c]),
                              project_dir(tempDir[c]) \o <<"Project.csproj">>,
                              project_dir(tempDir[c]) \o <<"Program.cs">> } IN
                /\ fs' = fs \cup made
                /\ written' = [written EXCEPT ![c] = @ \cup made]
             /\ filePath' = [filePath EXCEPT ![c] = project_dir(tempDir[c]) \o <<"Program.cs">>]
             /\ Logged(c, << <<"write", "project">> >>)
             /\ pc' = [pc EXCEPT ![c] = "run"]
             /\ UNCHANGED result
          \/ /\ o.kind = "error"
             /\ Leave(c, ExceptionResult(language[c], OS_ERROR))
             /\ UNCHANGED <<fs, written, filePath, log>>
  /\ UNCHANGED <<environ, env, reqLanguage, code, language, tempDir, bins, procs, raced>>

\* exec_cmd[0] as lines 311-371 leave it: a binary resolved by
\* get_command_path, or the compiled executable relative to the working
\* directory (dir = ".").
exec_cmd(b, lang) ==
  CASE lang = "java" -> get_command_path(b, "java")
    [] lang \in {"c", "cpp", "rust"} -> [dir |-> ".", name |-> "main"]
    [] OTHER -> get_command_path(b, EXECUTION_CONFIG[lang].command[1])

\* exec_cwd, were every program run in the directory above the staging directory.
exec_cwd_parent(lang, dir) == Parent(dir)

\* Lines 312, 318, 322, 360, 363: exec_cwd
exec_cwd(lang, dir) == IF lang = "csharp" THEN project_dir(dir) ELSE dir

\* Whether Popen finds the program to execute.
Executable(cmd, cwd) ==
  IF cmd.dir = "." THEN (cwd \o <<cmd.name>>) \in fs ELSE cmd.dir # ""

RECURSIVE LastPart(_)
\* The symbols of a name after its last "/".
LastPart(syms) ==
  IF IndexOf(syms, "/", 1) = 0 THEN syms
  ELSE LastPart(SubSeq(syms, IndexOf(syms, "/", 1) + 1, Len(syms)))

\* file_path.stem of the staged Java file: the final path component
\* without the extension.
file_stem(src) == Str(LastPart(class_name(src).name))

\* What the run command names after its program (lines 314-363): the class
\* for java, nothing for a compiled executable, the project directory for
\* csharp, the staged file otherwise.
run_arg(lang, src, dir) ==
  CASE lang = "java" -> <<file_stem(src)>>
    [] lang \in {"c", "cpp", "rust"} -> <<>>
    [] lang = "csharp" -> project_dir(dir)
    [] OTHER -> file_path(lang, src, dir)

\* Lines 311-382: build the run command and start it.
SpawnRun(c) ==
  /\ pc[c] = "run"
  /\ LET cmd == exec_cmd(bins, language[c])
         cwd == exec_cwd(language[c], tempDir[c]) IN
     \/ /\ ~Executable(cmd, cwd)
        /\ Leave(c, FileNotFoundResult(language[c], <<cmd.name>>))
        /\ UNCHANGED <<procs, log>>
     \/ /\ Executable(cmd, cwd)
        /\ procs' = procs \cup {Child(c, "run", cwd)}
        /\ pc' = [pc EXCEPT ![c] = "running"]
        /\ Logged(c, << <<"spawn", "run", cmd.name, run_arg(language[c], code[c], tempDir[c]),
                           cwd, env[c]>> >>)
        /\ UNCHANGED result
  /\ UNCHANGED <<environ, env, reqLanguage, code, language, tempDir, filePath, written, fs, bins,
                 world, raced>>

\* Lines 375-437: the run subprocess.run returns or raises.
RunEnd(c) ==
  /\ pc[c] = "running"
  /\ \E o \in RunOutcomes :
       /\ Decide(c, "run", o)
       /\ \/ /\ o.kind = "exit"
             /\ ReapChild(c, "run")
             /\ Logged(c, << <<"exit", "run">> >>)
             /\ Leave(c, RunResult(o))
          \/ /\ o.kind = "timeout"
             /\ KillChild(c, "run")
             /\ Logged(c, << <<"kill", "run">> >>)
             /\ Leave(c, TimeoutResult(timeout(c)))
          \/ /\ o.kind = "error"
             /\ KillChild(c, "run")
             /\ Logged(c, << <<"kill", "run">> >>)
             /\ Leave(c, ExceptionResult(language[c], OS_ERROR))
  /\ UNCHANGED <<environ, env, reqLanguage, code, language, tempDir, filePath, written, fs, bins, raced>>

\* Removed, were the directory removed without its contents.
Removed_rmdir(files, dir) == files \ {dir}

\* rmtree: everything at or below dir is gone.
Removed(files, dir) == {p \in files : ~IsPrefix(dir, p)}

\* Line 214, exit: TemporaryDirectory.__exit__ removes the directory tree
\* and the pending result is returned, or the removal raises and the
\* exception replaces the result.
ExitTempDir(c) ==
  /\ pc[c] = "cleanup"
  /\ \E o \in FsOutcomes :
       /\ Decide(c, "rmtree", o)
       /\ \/ /\ o.kind = "ok"
             /\ fs' = Removed(fs, tempDir[c])
             /\ pc' = [pc EXCEPT ![c] = "done"]
             /\ Logged(c, << <<"rmtree">> >>)
             /\ UNCHANGED result
          \/ /\ o.kind = "error"
             /\ pc' = [pc EXCEPT ![c] = "raised"]
             /\ result' = [result EXCEPT ![c] = <<>>]
             /\ UNCHANGED <<fs, log>>
  /\ UNCHANGED <<environ, env, reqLanguage, code, language, tempDir, filePath, written, bins, procs, raced>>

\* ------------------------------------------------------------------ environment

\* A running compile or run subprocess starts a process of its own (the
\* program `go run` or `dotnet run` launches, a forked worker).
Fork(c) ==
  /\ pc[c] \in {"compiling", "running"}
  /\ LET step == IF pc[c] = "compiling" THEN "compile" ELSE "run" IN
     /\ Cardinality(Descendants(c, step)) < MaxDescendants
     /\ procs' = procs \cup
          { [owner |-> c, step |-> step, role |-> "descendant",
             n |-> Cardinality(Descendants(c, step)) + 1, cwd |-> tempDir[c]] }
  /\ UNCHANGED <<pc, environ, env, reqLanguage, code, language, result, tempDir, filePath, written, log,
                 fs, bins, world, raced>>

\* A process started by a subprocess exits by itself.
DescendantExit(p) ==
  /\ p \in procs
  /\ p.role = "descendant"
  /\ procs' = procs \ {p}
  /\ UNCHANGED <<pc, environ, env, reqLanguage, code, language, result, tempDir, filePath, written, log,
                 fs, bins, world, raced>>

\* An executable is removed while a call stands between its presence check
\* and the subprocess that needs it.
BinaryVanishes(e) ==
  /\ e \in bins
  /\ \E c \in Calls : pc[c] \in {"mkdtemp", "stage", "compile", "project", "run"}
  /\ bins' = bins \ {e}
  /\ raced' = TRUE
  /\ UNCHANGED <<pc, environ, env, reqLanguage, code, language, result, tempDir, filePath, written, log,
                 fs, procs, world>>

\* One step of execute_code in call c.
Call(c) ==
  \/ Normalize(c)
  \/ CheckToolchain(c)
  \/ EnterTempDir(c)
  \/ Stage(c)
  \/ SpawnCompile(c)
  \/ CompileEnd(c)
  \/ ProjectSetup(c)
  \/ SpawnRun(c)
  \/ RunEnd(c)
  \/ ExitTempDir(c)

Next ==
  \/ \E c \in Calls : Call(c)
  \/ \E c \in Calls : Fork(c)
  \/ \E p \in procs : DescendantExit(p)
  \/ \E e \in bins : BinaryVanishes(e)

Spec == Init /\ [][Next]_vars

\* The caller makes its next call once the previous one has ended.
StartNext(c) ==
  /\ pc[c] = "waiting"
  /\ pc[c - 1] \in {"done", "raised"}
  /\ pc' = [pc EXCEPT ![c] = "start"]
  /\ UNCHANGED <<environ, env, reqLanguage, code, language, result, tempDir, filePath, written, log,
                 fs, bins, procs, world, raced>>

NextSeq ==
  \/ \E c \in Calls : Call(c)
  \/ \E c \in Calls : StartNext(c)

\* Two calls in sequence in an environment that answers both alike.
SpecSeq == InitSeq /\ [][NextSeq]_vars

\* The same request made twice, one call after the other, on one installation.
InitTwice ==
  \E r \in RequestNames : \E s \in CodeInputs(r) : \E b \in SeqSetups(r) :
    InitWith({1}, {2}, <<r, r>>, <<s, s>>, b)

SpecTwice == InitTwice /\ [][NextSeq]_vars

\* Every binary the commands of a request name, on the search path.
Installed(req) == {<<SEARCH_PATH, name>> : name \in Invokes(Str(Lower(req)))}

\* The source texts tried when two calls run at once.
ConcCodes(req) ==
  IF Str(Lower(req)) = "java"
  THEN { << <<"public class", " ", "Greeter", " ", "{", "}">> >>,
         << <<"public class", " ", "/", "tmp", "/", "Evil", " ", "{">> >> }
  ELSE {PlainCode}

\* Two requests served at the same time, their toolchains installed.
InitConc ==
  \E r1 \in {<<"j", "a", "v", "a">>, <<"c", "s", "h", "a", "r", "p">>} :
    \E r2 \in {<<"j", "a", "v", "a">>, <<"p", "y", "t", "h", "o", "n">>} :
      \E s1 \in ConcCodes(r1) : \E s2 \in ConcCodes(r2) :
        InitWith({1, 2}, {}, <<r1, r2>>, <<s1, s2>>, Installed(r1) \cup Installed(r2))

NextConc == \E c \in Calls : Call(c)

SpecConc == InitConc /\ [][NextConc]_vars

\* One call in one of the registry's three shapes (interpreted, compiled,
\* project-based) or for an unknown language, its toolchain installed or not.
InitLive ==
  \E r \in { <<"p", "y", "t", "h", "o", "n">>, <<"j", "a", "v", "a">>,
             <<"c", "s", "h", "a", "r", "p">>, <<"c", "o", "b", "o", "l">> } :
    \E s \in ConcCodes(r) : \E b \in {{}, Installed(r)} :
      InitWith({1}, {}, <<r>>, <<s>>, b)

\* The call's thread keeps running, and a subprocess it waits for either
\* exits or is cut off by the timeout: no step of a call waits forever.
\* Nothing obliges the environment to fork, to end a stray process or to
\* remove a binary.
SpecLive == InitLive /\ [][Next]_vars /\ \A c \in Calls : WF_vars(Call(c))

\* The PATH values a server process may have inherited: none, an empty
\* one, the usual ones, and one with an entry that holds an alternate
\* location inside a longer directory name.
InheritedEnvirons ==
  { Environ(FALSE, <<>>),
    Environ(TRUE, <<>>),
    Environ(TRUE, << <<"/usr/bin">> >>),
    Environ(TRUE, << <<"/usr/bin">>, <<"/usr/local/bin">>, <<"/bin">> >>),
    Environ(TRUE, << <<"/home/u", "/usr/local/bin">>, <<"/usr/bin">> >>) }

\* Two requests served at the same time by a server process with one of the
\* inherited environments, their toolchains installed.
InitEnv ==
  \E r1 \in {<<"r", "u", "s", "t">>, <<"c", "s", "h", "a", "r", "p">>} :
    \E r2 \in {<<"p", "y", "t", "h", "o", "n">>, <<"r", "u", "s", "t">>} :
      \E e \in InheritedEnvirons :
        InitIn({1, 2}, {}, <<r1, r2>>, <<PlainCode, PlainCode>>,
               Installed(r1) \cup Installed(r2), e)

SpecEnv == InitEnv /\ [][NextConc]_vars

\* ------------------------------------------------------------------ vocabulary of the claims

\* The call has returned a result to its caller.
Returned(c) == pc[c] = "done"

\* The call ended by raising to its caller.
Raised(c) == pc[c] = "raised"

\* The result dictionary of a call that holds one.
ResultOf(c) == result[c][1]

HasResult(c) == pc[c] \in {"cleanup", "done"} /\ result[c] # <<>>

Answered(c, step) == \E e \in world : e[1] = <<step, language[c], code[c]>>

\* The environment's answer to a step the call has been through.
Answer(c, step) == (CHOOSE e \in world : e[1] = <<step, language[c], code[c]>>)[2]

\* What the call did before it left the `with` block.
Steps(c) == SelectSeq(log[c], LAMBDA e : e # <<"rmtree">>)

LastStep(c) == Steps(c)[Len(Steps(c))]

Did(c, event) == \E i \in DOMAIN log[c] : log[c][i] = event

Spawned(c, step) == \E i \in DOMAIN log[c] : log[c][i][1] = "spawn" /\ log[c][i][2] = step

\* The compile step of the call ran to an exit with a non-zero code.
CompileFailed(c) ==
  /\ HasResult(c)
  /\ Steps(c) # <<>> /\ LastStep(c) = <<"exit", "compile">>
  /\ Answer(c, "compile").rc # 0

\* The run step of the call exceeded the timeout.
RunTimedOut(c) ==
  /\ HasResult(c)
  /\ Steps(c) # <<>> /\ LastStep(c) = <<"kill", "run">>
  /\ Answer(c, "run").kind = "timeout"

\* The run step of the call exited by itself within the timeout.
RunExited(c) ==
  /\ HasResult(c)
  /\ Steps(c) # <<>> /\ LastStep(c) = <<"exit", "run">>

RegistryNames == {"python", "java", "ruby", "php", "cpp", "c", "csharp", "go", "rust"}

\* ------------------------------------------------------------------ claims

\* C1: execute_code never raises to its caller: every call that has ended
\* has returned a result with a string output, a string-or-null error, an
\* integer exit code and a non-negative execution time.
C1_NeverRaises ==
  \A c \in Calls :
    /\ ~Raised(c)
    /\ Returned(c) =>
         /\ DOMAIN ResultOf(c) = {"output", "error", "exit_code", "execution_time"}
         /\ Len(ResultOf(c).error) <= 1
         /\ ResultOf(c).exit_code \in Int
         /\ ResultOf(c).execution_time >= 0

\* C2: once a call that created a staging directory has returned, neither
\* the directory nor anything below it exists.
C2_StagingRemoved ==
  \A c \in Calls :
    (Returned(c) /\ tempDir[c] # <<>>) => \A p \in fs : ~IsPrefix(tempDir[c], p)

\* C2 witness: a call returned a timeout result after staging its source
\* and starting its run step.
C2_Witness ==
  \E c \in Calls :
    /\ Returned(c) /\ tempDir[c] # <<>> /\ written[c] # {}
    /\ ResultOf(c).exit_code = 124 /\ Spawned(c, "run")

\* C3: everything a call writes lies inside its staging directory, and
\* nothing it wrote exists after it returned.
C3_WritesInsideStaging ==
  \A c \in Calls :
    /\ \A p \in written[c] : IsPrefix(tempDir[c], p)
    /\ Returned(c) => written[c] \cap fs = {}

\* C4: a language whose lowercase form is no key of the registry gets
\* exit_code 1, the error "Language <lowercase form> is not supported for
\* execution.", empty output and execution_time 0, and the call has by then
\* looked up no binary, created no directory, written no file and started
\* no subprocess.
C4_Unsupported ==
  \A c \in Calls :
    (pc[c] \notin {"unused", "waiting", "start"}
       /\ Str(Lower(reqLanguage[c])) \notin RegistryNames)
    => /\ Returned(c)
       /\ ResultOf(c) =
            [output |-> "",
             error |-> <<"Language " \o Str(Lower(reqLanguage[c]))
                          \o " is not supported for execution.">>,
             exit_code |-> 1, execution_time |-> 0]
       /\ log[c] = <<>> /\ tempDir[c] = <<>> /\ written[c] = {}
       /\ \A p \in procs : p.owner # c

\* C4 witness: a call for "COBOL" returned.
C4_Witness ==
  \E c \in Calls : Returned(c) /\ reqLanguage[c] = <<"C", "O", "B", "O", "L">>

\* The binaries each language needs, as the presence check is meant to
\* know them.
Toolchain(lang) ==
  CASE lang = "python" -> {"python3"}
    [] lang = "java"   -> {"java", "javac"}
    [] lang = "ruby"   -> {"ruby"}
    [] lang = "php"    -> {"php"}
    [] lang = "cpp"    -> {"g++"}
    [] lang = "c"      -> {"gcc"}
    [] lang = "csharp" -> {"dotnet"}
    [] lang = "go"     -> {"go"}
    [] lang = "rust"   -> {"rustc"}

\* An executable of that name exists in some location the lookup searches.
Locatable(name) == \E l \in Locations : <<l, name>> \in bins

\* The capitalized runtime names the toolchain-missing errors open with.
RuntimeNotFound ==
  { "PHP runtime not found. ", "Ruby runtime not found. ", "Java runtime not found. ",
    "Go runtime not found. ", "Rust compiler not found. ", "G++ compiler not found. ",
    "GCC compiler not found. ", "Dotnet runtime not found. ", "Python 3 not found. " }

\* C5: when the presence check of a supported language runs while one of
\* the language's binaries cannot be located, the call returns at once with
\* exit_code 1, empty output, execution_time 0 and an error made of a
\* capitalized runtime name and the language's install hint; it has created
\* no staging directory and started no subprocess.
C5_ToolchainMissing ==
  [][ \A c \in Calls :
        (pc[c] = "check" /\ pc'[c] # "check"
           /\ \E b \in Toolchain(language[c]) : ~Locatable(b))
        => /\ pc'[c] = "done"
           /\ result'[c][1].exit_code = 1
           /\ result'[c][1].output = ""
           /\ result'[c][1].execution_time = 0
           /\ \E pre \in RuntimeNotFound :
                result'[c][1].error = <<pre \o LANGUAGE_INSTALL_MESSAGES[language[c]]>>
           /\ tempDir'[c] = <<>> /\ fs' = fs
           /\ \A p \in procs' : p.owner # c
           /\ \A i \in DOMAIN log'[c] : log'[c][i][1] = "lookup" ]_vars

\* C5 witness: a Java call returned the toolchain-missing result with java
\* installed and javac missing.
C5_Witness ==
  \E c \in Calls :
    /\ Returned(c) /\ language[c] = "java"
    /\ Locatable("java") /\ ~Locatable("javac")
    /\ Did(c, <<"lookup", "javac">>)
    /\ ResultOf(c).exit_code = 1 /\ tempDir[c] = <<>>

\* The text of a captured stderr without the lines that start with "info:"
\* or "warning:" or are blank.
WithoutNoise(lines) ==
  LET keep(line) ==
        /\ ~(line # <<>> /\ line[1] \in {"info:", "warning:"})
        /\ \E i \in DOMAIN line : line[i] # " "
  IN  JoinLines(SelectSeq(lines, keep))

OrCompilationFailed(text) == IF text = "" THEN "Compilation failed" ELSE text

\* C6 as stated: for c, cpp, java and rust a compiler exiting non-zero gives
\* exit_code = the compiler's code, error = the compiler's stderr (or
\* "Compilation failed" when it is empty), output "" and execution_time 0,
\* and the run subprocess is never started.
C6_CompileFailureVerbatim ==
  \A c \in Calls :
    CompileFailed(c) =>
      /\ ResultOf(c) =
           [output |-> "",
            error |-> <<OrCompilationFailed(JoinLines(Answer(c, "compile").stderr))>>,
            exit_code |-> Answer(c, "compile").rc, execution_time |-> 0]
      /\ ~Spawned(c, "run")

\* C6 amended: as stated for c, cpp and java; for rust the error is the
\* compiler's stderr without the lines that start with "info:" or "warning:"
\* or are blank (or "Compilation failed" when nothing remains).
C6_CompileFailure ==
  \A c \in Calls :
    CompileFailed(c) =>
      /\ language[c] \in {"c", "cpp", "java", "rust"}
      /\ ResultOf(c) =
           [output |-> "",
            error |-> <<OrCompilationFailed(
                          IF language[c] = "rust"
                          THEN WithoutNoise(Answer(c, "compile").stderr)
                          ELSE JoinLines(Answer(c, "compile").stderr))>>,
            exit_code |-> Answer(c, "compile").rc, execution_time |-> 0]
      /\ ~Spawned(c, "run")
      /\ \A p \in procs : ~(p.owner = c /\ p.step = "run")

\* C6 witness: a rustc failure whose stderr held an info line returned.
C6_Witness ==
  \E c \in Calls :
    /\ CompileFailed(c) /\ Returned(c) /\ language[c] = "rust"
    /\ Answer(c, "compile").stderr[1] = <<"info:", " syncing channel">>

\* The configured ceiling, in seconds.
Ceiling(lang) == IF lang = "rust" THEN 15 ELSE 10

\* C7: a run step that exceeds the language's ceiling (15 s for rust, 10 s
\* otherwise) gives exit_code 124, error "Execution timed out after
\* <ceiling> seconds.", output "" and execution_time equal to the ceiling,
\* whatever the program had printed.
C7_RunTimeout ==
  \A c \in Calls :
    RunTimedOut(c) =>
      ResultOf(c) =
        [output |-> "",
         error |-> <<"Execution timed out after " \o ToString(Ceiling(language[c]))
                      \o " seconds.">>,
         exit_code |-> 124, execution_time |-> 1000 * Ceiling(language[c])]

\* C7 witness: a rust program that had printed "hi" timed out and the call
\* returned.
C7_Witness ==
  \E c \in Calls :
    /\ RunTimedOut(c) /\ Returned(c) /\ language[c] = "rust"
    /\ Answer(c, "run").stdout = "hi\n"

\* C8: once a call whose compile or run step timed out has returned, no
\* process started by the call is alive.
C8_NoProcessSurvivesTimeout ==
  \A c \in Calls :
    (Returned(c) /\ \E step \in {"compile", "run"} :
                      Did(c, <<"kill", step>>) /\ Answer(c, step).kind = "timeout")
    => \A p \in procs : p.owner # c

\* C9: when the run subprocess exits by itself, output is its stdout,
\* exit_code its exit code, and error its stderr if the exit code is
\* non-zero and null if it is zero.
C9_RunExit ==
  \A c \in Calls :
    RunExited(c) =>
      /\ ResultOf(c).output = Answer(c, "run").stdout
      /\ ResultOf(c).exit_code = Answer(c, "run").rc
      /\ Answer(c, "run").rc # 0 =>
           ResultOf(c).error = <<JoinLines(Answer(c, "run").stderr)>>
      /\ Answer(c, "run").rc = 0 => ResultOf(c).error = <<>>

\* C9 witness: a run that exited 0 after writing to stderr returned, and so
\* did one that exited non-zero.
C9_Witness ==
  \E c \in Calls :
    /\ RunExited(c) /\ Returned(c)
    /\ Answer(c, "run").rc = 0
    /\ Answer(c, "run").stderr # NoStderr
    /\ Answer(c, "run").stdout = "hi\n"

\* The call has ended, by returning or by raising.
Ended(c) == pc[c] \in {"done", "raised"}

\* C10: the registry holds exactly the nine lowercase names, each with an
\* install hint; the language a call works with is the lowercase form of
\* the one requested; and two calls whose languages differ only in letter
\* case, made with the same source text in an environment that answers
\* both alike (the installed binaries, the subprocesses' behaviour, the
\* name tempfile picks), do the same things and end with the same result.
C10_CaseInsensitive ==
  /\ DOMAIN EXECUTION_CONFIG = RegistryNames
  /\ Cardinality(DOMAIN EXECUTION_CONFIG) = 9
  /\ DOMAIN LANGUAGE_INSTALL_MESSAGES = RegistryNames
  /\ \A n \in DOMAIN EXECUTION_CONFIG : \E s \in RequestNames : Str(s) = n /\ Lower(s) = s
  /\ \A c \in Calls :
       pc[c] \notin {"unused", "waiting", "start"} => language[c] = Str(Lower(reqLanguage[c]))
  /\ \A c, d \in Calls :
       (Ended(c) /\ Ended(d) /\ Lower(reqLanguage[c]) = Lower(reqLanguage[d])
          /\ code[c] = code[d] /\ tempDir[c] = tempDir[d])
       => /\ pc[c] = pc[d]
          /\ result[c] = result[d]
          /\ log[c] = log[d]

\* C10 witness: "go" and "GO" both ran the program to a successful exit.
C10_Witness ==
  /\ reqLanguage[1] # reqLanguage[2]
  /\ language[1] = "go" /\ language[2] = "go"
  /\ Returned(1) /\ Returned(2)
  /\ tempDir[1] = tempDir[2] /\ tempDir[1] # <<>>
  /\ RunExited(1) /\ RunExited(2)
  /\ ResultOf(2).output = "hi\n" /\ ResultOf(2).exit_code = 0

\* ------------------------------------------------------------------ C11

\* C11: every result whose exit code is not 0 carries an error that is
\* neither null nor the empty string; so does the result of a run that
\* exits non-zero having written nothing to stderr.
C11_FailureHasError ==
  \A c \in Calls :
    (HasResult(c) /\ ResultOf(c).exit_code # 0) =>
      /\ ResultOf(c).error # Null
      /\ ResultOf(c).error # Some("")

\* ------------------------------------------------------------------ C12

\* C12: two calls with the same code and language, on the same installation
\* and with the environment answering both alike, end the same way and
\* return the same output, error and exit code.
C12_Deterministic ==
  \A c, d \in Calls :
    (/\ Ended(c) /\ Ended(d)
     /\ reqLanguage[c] = reqLanguage[d] /\ code[c] = code[d]
     /\ ~raced) =>
      /\ pc[c] = pc[d]
      /\ Returned(c) =>
           /\ ResultOf(c).output = ResultOf(d).output
           /\ ResultOf(c).error = ResultOf(d).error
           /\ ResultOf(c).exit_code = ResultOf(d).exit_code

\* ------------------------------------------------------------------ C13

\* The call holds a staging directory it has not yet removed.
Live(c) == tempDir[c] # <<>> /\ pc[c] \notin {"done", "raised"}

\* C13: calls running at the same time are independent: two live calls never
\* hold the same staging directory, and neither writes a file the other has
\* written.
C13_Independent ==
  \A c, d \in Calls :
    (c # d /\ Live(c) /\ Live(d)) =>
      /\ tempDir[c] # tempDir[d]
      /\ written[c] \cap written[d] = {}

\* ------------------------------------------------------------------ C14

IdentifierSymbol(x) == x \notin {" ", "{", "}", "/", ".."}

RECURSIVE Identifier(_)
\* The identifier a text starts with.
Identifier(s) ==
  IF s = <<>> \/ ~IdentifierSymbol(Head(s)) THEN <<>> ELSE <<Head(s)>> \o Identifier(Tail(s))

\* What follows the first 'public class' of the source, leading blanks dropped.
Declaration(src) == SkipSpace(AfterKeyword(src[FirstKeywordLine(src, 1)]))

\* The source declares a class: the keyword, an identifier, then a blank,
\* a brace or the end of the line.
DeclaresClass(src) ==
  /\ FirstKeywordLine(src, 1) # 0
  /\ LET d == Declaration(src)
         n == Len(Identifier(d)) IN
     /\ n > 0
     /\ n < Len(d) => d[n + 1] \in {" ", "{"}

\* The name the claim gives the staged file.
DeclaredName(src) ==
  IF FirstKeywordLine(src, 1) = 0 THEN "Main" ELSE Str(Identifier(Declaration(src)))

\* C14: a java source that declares a class, or holds no 'public class' at
\* all, is staged as <Name>.java in the staging directory, Name being the
\* identifier after the first 'public class' or Main; javac is given that
\* file and java is run with that Name.
C14_JavaFileName ==
  \A c \in Calls :
    (language[c] = "java" /\ (DeclaresClass(code[c]) \/ FirstKeywordLine(code[c], 1) = 0)) =>
      /\ filePath[c] # <<>> => filePath[c] = tempDir[c] \o <<DeclaredName(code[c]) \o ".java">>
      /\ \A i \in DOMAIN log[c] :
           log[c][i][1] = "spawn" =>
             IF log[c][i][2] = "compile"
             THEN log[c][i][3] = "javac" /\ log[c][i][4] = filePath[c]
             ELSE log[c][i][3] = "java" /\ log[c][i][4] = <<DeclaredName(code[c])>>

\* ------------------------------------------------------------------ C15

\* C15: a call that never started its run subprocess reports an
\* execution time of 0.
C15_RunTimeOnly ==
  \A c \in Calls :
    (HasResult(c) /\ ~Spawned(c, "run")) => ResultOf(c).execution_time = 0

\* ------------------------------------------------------------------ C16

\* The binary a step invokes by its name, "" where the step runs the
\* compiled executable.
Invoked(lang, step) ==
  IF step = "compile"
  THEN CASE lang = "c" -> "gcc" [] lang = "cpp" -> "g++" [] lang = "java" -> "javac"
         [] lang = "rust" -> "rustc" [] OTHER -> ""
  ELSE CASE lang = "python" -> "python3" [] lang = "java" -> "java" [] lang = "ruby" -> "ruby"
         [] lang = "php" -> "php" [] lang = "csharp" -> "dotnet" [] lang = "go" -> "go"
         [] OTHER -> ""

\* The missing command as the error names it.
Titled(name) ==
  CASE name = "python3" -> "Python3" [] name = "java" -> "Java" [] name = "javac" -> "Javac"
    [] name = "ruby" -> "Ruby" [] name = "php" -> "Php" [] name = "g++" -> "G++"
    [] name = "gcc" -> "Gcc" [] name = "dotnet" -> "Dotnet" [] name = "go" -> "Go"
    [] name = "rustc" -> "Rustc"

VanishedResult(lang, name) ==
  Result("", Some(Titled(name) \o " not found. " \o LANGUAGE_INSTALL_MESSAGES[lang]), 1, 0)

\* The call's result reports a binary that vanished after the presence check.
ReportsVanished(c) ==
  /\ HasResult(c)
  /\ language[c] \in RegistryNames
  /\ \E step \in {"compile", "run"} :
       /\ Invoked(language[c], step) # ""
       /\ ResultOf(c) = VanishedResult(language[c], Invoked(language[c], step))

\* C16: a call that reaches its compile or run step when the binary the
\* step invokes is gone leaves with exit code 1, no output, execution time
\* 0 and an error naming the command with the install hint; once it has
\* returned, its staging directory is removed.
C16_VanishedBinary ==
  /\ [][\A c \in Calls :
          (/\ pc[c] \in {"compile", "run"} /\ pc'[c] # pc[c]
           /\ Invoked(language[c], pc[c]) # ""
           /\ ~Locatable(Invoked(language[c], pc[c]))) =>
            /\ pc'[c] = "cleanup"
            /\ result'[c] = <<VanishedResult(language[c], Invoked(language[c], pc[c]))>>]_vars
  /\ [](\A c \in Calls :
          (Returned(c) /\ ReportsVanished(c)) => \A p \in fs : ~IsPrefix(tempDir[c], p))

C16_Witness ==
  \E c \in Calls :
    /\ Returned(c) /\ raced
    /\ language[c] = "java"
    /\ ResultOf(c) = VanishedResult("java", "javac")
    /\ Did(c, <<"lookup", "javac">>)

\* ------------------------------------------------------------------ C17

\* C17: when writing the source, setting up the project, a subprocess
\* invocation or the removal of the staging directory fails with an
\* exception that is neither a timeout nor a missing file, the call does
\* not raise: it holds a result with exit code 1, no output, execution
\* time 0 and an error.
C17_ExceptionsConverted ==
  \A c \in Calls : \A step \in {"write", "project", "compile", "run", "rmtree"} :
    (tempDir[c] # <<>> /\ Answered(c, step) /\ Answer(c, step).kind = "error") =>
      /\ ~Raised(c)
      /\ HasResult(c)
      /\ ResultOf(c).exit_code = 1 /\ ResultOf(c).output = ""
      /\ ResultOf(c).execution_time = 0 /\ ResultOf(c).error # Null

\* ------------------------------------------------------------------ C18

\* The alternate install locations in the order the claim gives them.
AlternateLocations == <<"/opt/homebrew/bin", "/usr/local/bin", "~/.cargo/bin">>

\* C18: on every installation the calls meet, get_command_path finds a
\* binary on the standard search path if it is there, else in the first
\* alternate location that holds it, else nowhere; and check_command_exists
\* is true exactly when get_command_path finds it.
C18_Lookup ==
  \A name \in Binaries :
    LET found == get_command_path(bins, name) IN
    /\ found.name = name
    /\ <<SEARCH_PATH, name>> \in bins => found.dir = SEARCH_PATH
    /\ <<SEARCH_PATH, name>> \notin bins =>
         \A i \in DOMAIN AlternateLocations :
           (/\ <<AlternateLocations[i], name>> \in bins
            /\ \A j \in 1 .. i - 1 : <<AlternateLocations[j], name>> \notin bins) =>
             found.dir = AlternateLocations[i]
    /\ ~Locatable(name) => found.dir = ""
    /\ check_command_exists(bins, name) <=> found.dir # ""

\* A call has looked up and started a binary that lies in two alternate
\* locations and not on the search path.
C18_Witness ==
  \E c \in Calls : \E name \in Binaries :
    /\ <<SEARCH_PATH, name>> \notin bins
    /\ <<AlternateLocations[2], name>> \in bins /\ <<AlternateLocations[3], name>> \in bins
    /\ Did(c, <<"lookup", name>>)
    /\ \E i \in DOMAIN log[c] : log[c][i][1] = "spawn" /\ log[c][i][3] = name

\* ------------------------------------------------------------------ C19

\* Position of the first occurrence of event in the call's log, 0 if none.
FirstAt(c, event) ==
  IF Did(c, event) THEN CHOOSE i \in DOMAIN log[c] :
                          log[c][i] = event /\ \A j \in 1 .. i - 1 : log[c][j] # event
  ELSE 0

\* C19: every compile or run subprocess a call starts by the name of a
\* toolchain binary follows a presence check of that binary, made before
\* the staging directory was created.
C19_CheckedBeforeUse ==
  \A c \in Calls : \A i \in DOMAIN log[c] :
    (log[c][i][1] = "spawn" /\ log[c][i][3] \in Binaries) =>
      /\ Did(c, <<"lookup", log[c][i][3]>>)
      /\ FirstAt(c, <<"lookup", log[c][i][3]>>) < FirstAt(c, <<"mkdtemp">>)
      /\ FirstAt(c, <<"mkdtemp">>) < i

\* A java call has started javac and then java.
C19_Witness ==
  \E c \in Calls :
    /\ language[c] = "java"
    /\ \E i, j \in DOMAIN log[c] :
         /\ i < j
         /\ log[c][i][1] = "spawn" /\ log[c][i][3] = "javac"
         /\ log[c][j][1] = "spawn" /\ log[c][j][3] = "java"

\* ------------------------------------------------------------------ C20

\* The positions in the call's log at which it started a subprocess of the step.
SpawnsAt(c, step) ==
  {i \in DOMAIN log[c] : log[c][i][1] = "spawn" /\ log[c][i][2] = step}

ChildAlive(c, step) == \E p \in procs : p.owner = c /\ p.step = step /\ p.role = "child"

\* C20: in one call the source is written before any subprocess starts;
\* compile and run are each started at most once; c, cpp, java and rust run
\* only after their compile subprocess exited with code 0; the compile and
\* the run subprocess are never alive together; and the staging directory
\* is removed last, when neither is alive.
C20_Sequential ==
  \A c \in Calls :
    /\ \A i \in SpawnsAt(c, "compile") \cup SpawnsAt(c, "run") :
         \E j \in 1 .. i - 1 : log[c][j] = <<"write", "source">>
    /\ Cardinality(SpawnsAt(c, "compile")) <= 1
    /\ Cardinality(SpawnsAt(c, "run")) <= 1
    /\ language[c] \in {"c", "cpp", "java", "rust"} =>
         \A i \in SpawnsAt(c, "run") :
           /\ \E j \in 1 .. i - 1 : log[c][j] = <<"exit", "compile">>
           /\ Answer(c, "compile").kind = "exit" /\ Answer(c, "compile").rc = 0
    /\ ~(ChildAlive(c, "compile") /\ ChildAlive(c, "run"))
    /\ ChildAlive(c, "run") => LastStep(c)[1] = "spawn" /\ LastStep(c)[2] = "run"
    /\ ChildAlive(c, "compile") => LastStep(c)[1] = "spawn" /\ LastStep(c)[2] = "compile"
    /\ Did(c, <<"rmtree">>) =>
         /\ log[c][Len(log[c])] = <<"rmtree">>
         /\ ~ChildAlive(c, "compile") /\ ~ChildAlive(c, "run")

\* A compiled language went through compile, run and cleanup.
C20_Witness ==
  \E c \in Calls :
    /\ language[c] \in {"c", "cpp", "java", "rust"}
    /\ Returned(c)
    /\ SpawnsAt(c, "compile") # {} /\ SpawnsAt(c, "run") # {}
    /\ Did(c, <<"exit", "run">>) /\ Did(c, <<"rmtree">>)

\* ------------------------------------------------------------------ C21

\* The call has been made.
Made(c) == pc[c] \notin {"unused", "waiting"}

\* C21: a call never stops short of returning its result: as long as it has
\* not returned it has a step to take, and it starts at most two
\* subprocesses.
C21_EventuallyReturns ==
  \A c \in Calls :
    Made(c) =>
      /\ Returned(c) \/ ENABLED Call(c)
      /\ Cardinality(SpawnsAt(c, "compile") \cup SpawnsAt(c, "run")) <= 2

\* ------------------------------------------------------------------ C22

\* The files of the C# project inside the call's staging directory.
ProjectFiles(c) ==
  { tempDir[c] \o <<"Project", "Project.csproj">>, tempDir[c] \o <<"Project", "Program.cs">> }

\* C22: a csharp call starts no compile subprocess; its only subprocess is
\* one `dotnet run --project <staging>/Project`, started after the project
\* files were written; and when that subprocess exits non-zero the result
\* carries its stdout, its stderr and its exit code.
C22_CSharpFused ==
  \A c \in Calls :
    language[c] = "csharp" =>
      /\ SpawnsAt(c, "compile") = {}
      /\ Cardinality(SpawnsAt(c, "run")) <= 1
      /\ \A i \in SpawnsAt(c, "run") :
           /\ log[c][i][3] = "dotnet"
           /\ log[c][i][4] = tempDir[c] \o <<"Project">>
           /\ \E j \in 1 .. i - 1 : log[c][j] = <<"write", "project">>
           /\ ProjectFiles(c) \subseteq written[c]
      /\ (RunExited(c) /\ Answer(c, "run").rc # 0) =>
           /\ Cardinality(SpawnsAt(c, "run")) = 1
           /\ ResultOf(c).output = Answer(c, "run").stdout
           /\ ResultOf(c).error = Some(Text(Answer(c, "run").stderr))
           /\ ResultOf(c).exit_code = Answer(c, "run").rc
           /\ ResultOf(c).execution_time = Round3(Answer(c, "run").elapsed)

\* A csharp call returned the failure of its dotnet run.
C22_Witness ==
  \E c \in Calls :
    /\ language[c] = "csharp" /\ Returned(c)
    /\ RunExited(c) /\ Answer(c, "run").rc # 0
    /\ ResultOf(c).error = Some(Text(ErrorLine))

\* ------------------------------------------------------------------ C23

\* The rustc of the call exited with code 0.
RustCompiled(c) ==
  /\ language[c] = "rust"
  /\ Did(c, <<"exit", "compile">>)
  /\ Answer(c, "compile").rc = 0

\* C23: a rust call whose rustc exited 0 goes on to the run step whatever
\* rustc wrote to stderr, and what rustc wrote is not the error of its
\* result.
C23_RustExitCodeDecides ==
  \A c \in Calls :
    RustCompiled(c) =>
      /\ pc[c] = "run" \/ Spawned(c, "run")
      /\ (HasResult(c) /\ Text(Answer(c, "compile").stderr) # "") =>
           ResultOf(c).error # Some(Text(Answer(c, "compile").stderr))

\* A rust call whose rustc exited 0 with a warning on stderr returned the
\* result of its run.
C23_Witness ==
  \E c \in Calls :
    /\ RustCompiled(c) /\ Answer(c, "compile").stderr = WarningOnly
    /\ Returned(c) /\ RunExited(c)
    /\ ResultOf(c).exit_code = 1

\* ------------------------------------------------------------------ C24

\* C24: when rustc exits non-zero the error is its stderr without the lines
\* that start with "info:" or "warning:" or are blank, the other lines as
\* they were and in their order, joined by newlines; "Compilation failed"
\* if no line remains.
C24_RustFilter ==
  \A c \in Calls :
    (CompileFailed(c) /\ language[c] = "rust") =>
      ResultOf(c).error =
        Some(IF WithoutNoise(Answer(c, "compile").stderr) = "" THEN "Compilation failed"
             ELSE WithoutNoise(Answer(c, "compile").stderr))

\* A rustc failure with only a warning line on stderr returned "Compilation
\* failed".
C24_Witness ==
  \E c \in Calls :
    /\ CompileFailed(c) /\ language[c] = "rust" /\ Returned(c)
    /\ Answer(c, "compile").stderr = WarningOnly
    /\ ResultOf(c).error = Some("Compilation failed")

\* ------------------------------------------------------------------ C25

\* The environments the call's subprocesses of a step were given.
EnvGiven(c, step) == {log[c][i][6] : i \in SpawnsAt(c, step)}

\* C25: no step changes os.environ; every subprocess is given a copy that
\* differs from it (PYTHONUNBUFFERED is set in the copy alone); and
\* RUSTUP_TOOLCHAIN and RUSTUP_LOG are set in the environment of the rustc
\* compile subprocess and in no other: not in a run step's, not in another
\* language's, not in the call's own env.
C25_EnvironUntouched ==
  /\ [][environ' = environ]_vars
  /\ [](\A c \in Calls :
          /\ environ.PYTHONUNBUFFERED = ""
          /\ \A step \in {"compile", "run"} : \A e \in EnvGiven(c, step) :
               /\ e.PYTHONUNBUFFERED = "1"
               /\ IF language[c] = "rust" /\ step = "compile"
                  THEN e.RUSTUP_TOOLCHAIN = "stable" /\ e.RUSTUP_LOG = "error"
                  ELSE e.RUSTUP_TOOLCHAIN = "" /\ e.RUSTUP_LOG = ""
          /\ env[c] # <<>> => env[c].RUSTUP_TOOLCHAIN = "" /\ env[c].RUSTUP_LOG = "")

\* A rust call has compiled and run while another call ran.
C25_Witness ==
  \E c, d \in Calls :
    /\ c # d /\ language[c] = "rust"
    /\ EnvGiven(c, "compile") # {} /\ EnvGiven(c, "run") # {} /\ EnvGiven(d, "run") # {}
    /\ Returned(c) /\ Returned(d)

\* ------------------------------------------------------------------ C26

\* C26: in the environment given to every compile and run subprocess each
\* of the three alternate locations is an entry of PATH, and the entries of
\* the inherited PATH are all there in the order they had.
C26_PathExtended ==
  \A c \in Calls : \A step \in {"compile", "run"} : \A e \in EnvGiven(c, step) :
    LET entries == e.PATH.entries
        inherited == current_path(environ) IN
    /\ e.PATH.set
    /\ \A i \in DOMAIN AlternateLocations :
         \E k \in DOMAIN entries : entries[k] = <<AlternateLocations[i]>>
    /\ SelectSeq(entries, LAMBDA x : \E k \in DOMAIN inherited : inherited[k] = x) = inherited

\* ------------------------------------------------------------------ C27

\* The working directories the call's subprocesses of a step were given.
CwdGiven(c, step) == {log[c][i][5] : i \in SpawnsAt(c, step)}

\* C27 as stated: every compile and every run subprocess of a call has the
\* call's staging directory as its working directory.
C27_CwdIsStaging ==
  \A c \in Calls : \A step \in {"compile", "run"} : \A d \in CwdGiven(c, step) :
    d = tempDir[c]

\* C27 amended: as stated for every language but csharp, whose dotnet run
\* has the Project directory inside the staging directory as its working
\* directory.
C27_Cwd ==
  \A c \in Calls : \A step \in {"compile", "run"} : \A d \in CwdGiven(c, step) :
    d = IF language[c] = "csharp" THEN tempDir[c] \o <<"Project">> ELSE tempDir[c]

\* A csharp call ran dotnet in its Project directory and returned.
C27_Witness ==
  \E c \in Calls :
    /\ language[c] = "csharp"
    /\ CwdGiven(c, "run") = {tempDir[c] \o <<"Project">>}
    /\ Returned(c)

\* ------------------------------------------------------------------ C28

\* The compile step of the call exceeded the timeout.
CompileTimedOut(c) ==
  /\ HasResult(c)
  /\ Steps(c) # <<>> /\ LastStep(c) = <<"kill", "compile">>
  /\ Answer(c, "compile").kind = "timeout"

\* C28: a result has exit code 124 only if a compile or run step of the
\* call exceeded the timeout.
C28_TimeoutSentinel ==
  \A c \in Calls :
    (HasResult(c) /\ ResultOf(c).exit_code = 124) => (CompileTimedOut(c) \/ RunTimedOut(c))

\* ------------------------------------------------------------------ C29

\* C29: in every result the error is null exactly when the exit code is 0.
C29_ErrorNullIffZero ==
  \A c \in Calls :
    HasResult(c) => (ResultOf(c).error = Null <=> ResultOf(c).exit_code = 0)

\* A run that wrote to stderr and exited 0 returned a null error.
C29_Witness ==
  \E c \in Calls :
    /\ Returned(c) /\ RunExited(c)
    /\ Answer(c, "run").rc = 0 /\ Answer(c, "run").stderr = ErrorLine
    /\ ResultOf(c).error = Null /\ ResultOf(c).exit_code = 0

\* ------------------------------------------------------------------ C30

\* C30: a java call that has left the staging step has obtained a file
\* name, whatever the source text, and its result, if it holds one, is not
\* the report of an exception raised while the name was derived.
C30_NameDerivationTotal ==
  \A c \in Calls :
    (language[c] = "java" /\ tempDir[c] # <<>> /\ pc[c] # "stage") =>
      /\ filePath[c] # <<>>
      /\ HasResult(c) => ResultOf(c).error # Some("Execution error: list index out of range")

====
